---- MODULE Spec2Model ----
(***************************************************************************)
(* A model of jsonpipe (src/common/jsonpipe.cc): the newline-framed,       *)
(* mutex-protected duplex transport.                                       *)
(*                                                                         *)
(* Every public method except txEof takes mutex0 for its whole body, so a  *)
(* method is one atomic action here; the results of the read()/send()      *)
(* calls it makes are its inputs (a script of kernel answers).  txEof      *)
(* writes one flag without the lock; txWork and preSelect read that flag   *)
(* at most once per call, so a racing txEof is the same as one ordered     *)
(* before or after the call.  rxBlock is the one method that gives the     *)
(* lock up in the middle (condition_variable::wait), so each consumer      *)
(* thread has a position pc[t].                                            *)
(*                                                                         *)
(* Bytes are small integers, strings are sequences of bytes.               *)
(*                                                                         *)
(* The second part models the container codec of src/common/jsonio.h       *)
(* (wrJsonSize, wrJson, rdJson for vector, map and shared_ptr, asJson and   *)
(* fromJson) as operators on sequences of characters.                      *)
(***************************************************************************)
EXTENDS Integers, Sequences, FiniteSets, TLC

\* ---------------------------------------------------------------- bounds
MaxTx == 3          \* tx() calls in a behaviour of SpecTx
MaxRxBytes == 3     \* bytes the peer sends in a behaviour of SpecRx
LiveTx == 1         \* tx() calls in a behaviour of FairSpecTx
LiveRxBytes == 2    \* bytes the peer sends in a behaviour of FairSpecRx
DuplexTx == 1       \* tx() calls in a behaviour of Spec
DuplexRxBytes == 1  \* bytes the peer sends in a behaviour of Spec
MaxBurst == 2       \* kernel answers scripted for one servicing pass
MaxChunk == 2       \* bytes one read() returns at most
NThreads == 2       \* consumer threads that may sit in rxBlock()
MaxElems == 2       \* elements of a vector handed to asJson
MaxEntries == 3     \* "key":value entries of an object handed to fromJson

\* ------------------------------------------------------------- constants
NL == 10            \* '\n'
NoFd == 0 - 1       \* the "no descriptor" value of txFd / rxFd

Fds == {3, 4}                          \* descriptor numbers the caller may pass
FdPairs == {<<3, 3>>, <<3, 4>>}        \* (txFd, rxFd): one duplex socket, or two pipes
RxBytes == {97, NL}                   \* bytes the peer may send
TxRecords == {<<97>>, <<98>>}         \* records handed to tx(): no raw newline
Threads == 1..NThreads

\* The longest string txWork hands to send(): one record and its newline.
FrameLen == 1 + CHOOSE n \in {Len(r) : r \in TxRecords} : \A r \in TxRecords : Len(r) <= n

VARIABLES
  txFd, rxFd, txEofFlag,     \* jsonpipe members
  txQ, rxQ, txCur, rxCur,
  pc,                        \* pc[t]: where consumer thread t is in rxBlock()
  evpc, rfds, wfds,          \* the event loop: its position and its fd_sets
  fdTab,                     \* the kernel's view of each descriptor
  wire,                      \* bytes the transmit fd has accepted, in order
  rxBytes,                   \* bytes read() has returned, in order
  txLog,                     \* records passed to tx(), in lock order
  txEarly,                   \* how many of them before the first setFds
  rxPushed,                  \* records pushed onto rxQ, in order
  rxGot,                     \* records popped from rxQ by the drains, in order
  rxLost,                    \* bytes reported lost by the end-of-stream diagnostic
  codec                      \* one asJson / fromJson exchange (jsonio.h)

vars == <<txFd, rxFd, txEofFlag, txQ, rxQ, txCur, rxCur, pc, evpc, rfds, wfds,
          fdTab, wire, rxBytes, txLog, txEarly, rxPushed, rxGot, rxLost, codec>>

\* What a call has done so far: its send() and read() calls, the local
\* rxActivity of rxWork, the diagnostic of line 63, why it called closeTx
\* ("eof": line 107, "error": line 119), the value it returns, whether that
\* value was popped from rxQ, whether it threw.
NoIo ==
  [nsend |-> 0, nread |-> 0, rxActivity |-> FALSE, diag |-> FALSE,
   txClose |-> "none", ret |-> <<>>, popped |-> FALSE, threw |-> FALSE]

\* The whole state as one record, so that the methods are operators on it;
\* the field io is local to the call and is dropped when the call returns.
Now ==
  [txFd |-> txFd, rxFd |-> rxFd, txEofFlag |-> txEofFlag,
   txQ |-> txQ, rxQ |-> rxQ, txCur |-> txCur, rxCur |-> rxCur,
   pc |-> pc, evpc |-> evpc, rfds |-> rfds, wfds |-> wfds,
   fdTab |-> fdTab, wire |-> wire, rxBytes |-> rxBytes,
   txLog |-> txLog, txEarly |-> txEarly,
   rxPushed |-> rxPushed, rxGot |-> rxGot, rxLost |-> rxLost,
   io |-> NoIo]

Commit(st) ==
  /\ txFd' = st.txFd /\ rxFd' = st.rxFd /\ txEofFlag' = st.txEofFlag
  /\ txQ' = st.txQ /\ rxQ' = st.rxQ /\ txCur' = st.txCur /\ rxCur' = st.rxCur
  /\ pc' = st.pc /\ evpc' = st.evpc /\ rfds' = st.rfds /\ wfds' = st.wfds
  /\ fdTab' = st.fdTab /\ wire' = st.wire /\ rxBytes' = st.rxBytes
  /\ txLog' = st.txLog /\ txEarly' = st.txEarly
  /\ rxPushed' = st.rxPushed /\ rxGot' = st.rxGot /\ rxLost' = st.rxLost
  /\ UNCHANGED codec

\* ------------------------------------------------------------ the kernel
FreeFd == [open |-> FALSE, shutRd |-> FALSE, shutWr |-> FALSE, closes |-> 0]
OpenFd == [open |-> TRUE, shutRd |-> FALSE, shutWr |-> FALSE, closes |-> 0]

Min(a, b) == IF a < b THEN a ELSE b

\* close(fd): releases the descriptor; counts the call (capped at 2).
close(tab, fd) ==
  [tab EXCEPT ![fd] = [@ EXCEPT !.open = FALSE, !.closes = Min(@ + 1, 2)]]

\* shutdown(fd, SHUT_RD) / shutdown(fd, SHUT_WR): the descriptor stays open.
shutdownRd(tab, fd) == [tab EXCEPT ![fd] = [@ EXCEPT !.shutRd = TRUE]]
shutdownWr(tab, fd) == [tab EXCEPT ![fd] = [@ EXCEPT !.shutWr = TRUE]]

\* Answers of send(): nw bytes accepted, or -1 with errno.
SendOk(n) == [nw |-> n, errno |-> "none"]
SendAgain == [nw |-> 0 - 1, errno |-> "EAGAIN"]
SendFail == [nw |-> 0 - 1, errno |-> "EPIPE"]
SendAnswers == {SendOk(n) : n \in 1..FrameLen} \cup {SendFail}

\* Answers of read(): a chunk of nr > 0 bytes, 0 at end of stream, or -1.
ReadOk(b) == [nr |-> Len(b), buf |-> b, errno |-> "none"]
ReadEof == [nr |-> 0, buf |-> <<>>, errno |-> "none"]
ReadAgain == [nr |-> 0 - 1, buf |-> <<>>, errno |-> "EAGAIN"]
ReadFail == [nr |-> 0 - 1, buf |-> <<>>, errno |-> "ECONNRESET"]
Chunks == UNION {[1..k -> RxBytes] : k \in 1..MaxChunk}

\* A script: the answers the kernel gives to the successive calls of one
\* servicing pass before it answers EAGAIN.  Only the last of them may be a
\* failure or the end of the stream (the pass ends there).
Scripts(answers, good) ==
  {s \in UNION {[1..k -> answers] : k \in 0..MaxBurst} :
     \A i \in 1..(Len(s) - 1) : s[i] \in good}
SendScripts == Scripts(SendAnswers, {SendOk(n) : n \in 1..FrameLen})

\* The read scripts of at most k answers that deliver at most n bytes.
RECURSIVE ReadScriptsUpTo(_, _)
ReadScriptsUpTo(n, k) ==
  IF k = 0 THEN {<<>>}
  ELSE {<<>>, <<ReadEof>>, <<ReadFail>>}
       \cup UNION {{<<ReadOk(b)>> \o s : s \in ReadScriptsUpTo(n - Len(b), k - 1)} :
                     b \in {c \in Chunks : Len(c) <= n}}

\* What send(fd, buf, len) answers: EBADF on an invalid descriptor, EPIPE
\* after the write side was shut down, otherwise the scripted answer, never
\* more than len bytes.
send(st, fd, len, script) ==
  IF fd \notin Fds \/ ~st.fdTab[fd].open THEN [nw |-> 0 - 1, errno |-> "EBADF"]
  ELSE IF st.fdTab[fd].shutWr THEN SendFail
  ELSE IF script = <<>> THEN SendAgain
  ELSE IF Head(script).nw > 0 THEN SendOk(Min(Head(script).nw, len))
  ELSE Head(script)

\* What read(fd, buf, 8192) answers: EBADF on an invalid descriptor, 0 after
\* the read side was shut down, otherwise the scripted answer.
read(st, fd, script) ==
  IF fd \notin Fds \/ ~st.fdTab[fd].open THEN [nr |-> 0 - 1, buf |-> <<>>, errno |-> "EBADF"]
  ELSE IF st.fdTab[fd].shutRd THEN ReadEof
  ELSE IF script = <<>> THEN ReadAgain
  ELSE Head(script)

\* ---------------------------------------------------------- closeRx/closeTx
closeRx(st) ==
  IF st.rxFd = NoFd THEN st
  ELSE [st EXCEPT !.fdTab = IF st.rxFd = st.txFd THEN shutdownRd(@, st.rxFd)
                            ELSE close(@, st.rxFd),
                  !.rxFd = NoFd]

\* A closeTx that takes the receive direction down with it.
closeTxBoth(st) ==
  IF st.txFd = NoFd THEN st
  ELSE closeRx([st EXCEPT !.fdTab = IF st.txFd = st.rxFd THEN shutdownWr(@, st.txFd)
                                    ELSE close(@, st.txFd),
                          !.txFd = NoFd])

\* A closeTx that always closes the descriptor outright.
closeTxFull(st) ==
  IF st.txFd = NoFd THEN st
  ELSE [st EXCEPT !.fdTab = close(@, st.txFd), !.txFd = NoFd]

\* A closeTx that, with no descriptor to close, throws the pending bytes away.
closeTxDrop(st) ==
  IF st.txFd = NoFd THEN [st EXCEPT !.txCur = <<>>]
  ELSE [st EXCEPT !.fdTab = IF st.txFd = st.rxFd THEN shutdownWr(@, st.txFd)
                            ELSE close(@, st.txFd),
                  !.txFd = NoFd]

closeTx(st) ==
  IF st.txFd = NoFd THEN st
  ELSE [st EXCEPT !.fdTab = IF st.txFd = st.rxFd THEN shutdownWr(@, st.txFd)
                            ELSE close(@, st.txFd),
                  !.txFd = NoFd]

\* ------------------------------------------------------------------ txWork
\* A partial send that leaves the current record as it was.
eraseNothing(str, n) == str

\* string::erase(0, n): the string without its first n bytes.
erase(str, n) == SubSeq(str, n + 1, Len(str))

\* A pass that takes no further record once end-of-stream was requested.
txNextUnlessEof(st) ==
  IF Len(st.txCur) = 0 /\ st.txQ # <<>> /\ ~st.txEofFlag
  THEN [st EXCEPT !.txCur = Head(st.txQ) \o <<NL>>, !.txQ = Tail(st.txQ)]
  ELSE st

\* Lines 101-104: the next record, newline appended, becomes the current one.
txNext(st) ==
  IF Len(st.txCur) = 0 /\ st.txQ # <<>>
  THEN [st EXCEPT !.txCur = Head(st.txQ) \o <<NL>>, !.txQ = Tail(st.txQ)]
  ELSE st

\* One iteration per send(); io.nsend counts the send() calls of the pass.
RECURSIVE txWork(_, _)
txWork(st, script) ==
  LET s1 == txNext(st)
  IN IF Len(s1.txCur) = 0
     THEN (IF s1.txEofFlag THEN closeTx([s1 EXCEPT !.io.txClose = "eof"]) ELSE s1)
     ELSE LET r == send(s1, s1.txFd, Len(s1.txCur), script)
              s2 == [s1 EXCEPT !.io.nsend = @ + 1]
              rest == IF script = <<>> THEN <<>> ELSE Tail(script)
          IN IF r.nw < 0 /\ r.errno = "EAGAIN" THEN s2
             ELSE IF r.nw < 0 THEN closeTx([s2 EXCEPT !.io.txClose = "error"])
             ELSE IF r.nw < Len(s2.txCur)
               THEN txWork([s2 EXCEPT !.txCur = erase(@, r.nw),
                                      !.wire = @ \o SubSeq(s2.txCur, 1, r.nw)], rest)
             ELSE txWork([s2 EXCEPT !.txCur = <<>>,
                                    !.wire = @ \o s2.txCur], rest)

\* ------------------------------------------------------------------ rxWork
\* memchr(p, '\n', n): index of the first newline in p, 0 when there is none.
\* A scan that overlooks a newline at the very start of the chunk.
RECURSIVE memchrSkipFirst(_, _)
memchrSkipFirst(p, i) ==
  IF i > Len(p) THEN 0
  ELSE IF p[i] = NL /\ i > 1 THEN i
  ELSE memchrSkipFirst(p, i + 1)

RECURSIVE memchr(_, _)
memchr(p, i) ==
  IF i > Len(p) THEN 0 ELSE IF p[i] = NL THEN i ELSE memchr(p, i + 1)

\* The scan of one chunk (the inner while loop).
RECURSIVE rxScan(_, _)
rxScan(st, p) ==
  IF p = <<>> THEN st
  ELSE LET q == memchr(p, 1) IN
    IF q = 0 THEN [st EXCEPT !.rxCur = @ \o p]
    ELSE IF Len(st.rxCur) > 0
      THEN rxScan([st EXCEPT !.rxQ = Append(@, st.rxCur \o SubSeq(p, 1, q - 1)),
                             !.rxPushed = Append(@, st.rxCur \o SubSeq(p, 1, q - 1)),
                             !.io.rxActivity = TRUE,
                             !.rxCur = <<>>],
                  SubSeq(p, q + 1, Len(p)))
      ELSE rxScan([st EXCEPT !.rxQ = Append(@, SubSeq(p, 1, q - 1)),
                             !.rxPushed = Append(@, SubSeq(p, 1, q - 1)),
                             !.io.rxActivity = TRUE],
                  SubSeq(p, q + 1, Len(p)))

\* rxQNonempty.notify_all(): every thread in wait() becomes runnable.
\* A notification that wakes one waiting thread only.
notify_one(st) ==
  IF \A t \in Threads : st.pc[t] # "waiting" THEN st
  ELSE LET w == CHOOSE t \in Threads :
                  st.pc[t] = "waiting" /\ \A u \in Threads : st.pc[u] = "waiting" => t <= u
       IN [st EXCEPT !.pc[w] = "woken"]

notify_all(st) ==
  [st EXCEPT !.pc = [t \in Threads |-> IF st.pc[t] = "waiting" THEN "woken" ELSE st.pc[t]]]

\* An end of stream that queues the unterminated tail as a last record.
rxEofPushTail(st) ==
  closeRx([st EXCEPT !.rxQ = IF Len(st.rxCur) > 0 THEN Append(@, st.rxCur) ELSE @,
                     !.rxPushed = IF Len(st.rxCur) > 0 THEN Append(@, st.rxCur) ELSE @,
                     !.rxCur = <<>>])

\* Lines 61-68, read() returned 0: the diagnostic when an unterminated tail
\* is pending, rxCur.clear(), closeRx().
rxEof(st) ==
  closeRx([st EXCEPT !.rxCur = <<>>,
                     !.io.diag = (Len(st.rxCur) > 0),
                     !.rxLost = @ + Len(st.rxCur)])

\* The read loop; io.nread counts the read() calls of the pass.
RECURSIVE rxLoop(_, _)
rxLoop(st, script) ==
  LET r == read(st, st.rxFd, script)
      s1 == [st EXCEPT !.io.nread = @ + 1]
      rest == IF script = <<>> THEN <<>> ELSE Tail(script)
  IN IF r.nr < 0 /\ r.errno = "EAGAIN" THEN s1
     ELSE IF r.nr < 0 THEN closeRx(s1)
     ELSE IF r.nr = 0 THEN rxEof(s1)
     ELSE rxLoop(rxScan([s1 EXCEPT !.rxBytes = @ \o r.buf], r.buf), rest)

rxWork(st, script) ==
  LET s1 == rxLoop(st, script)
  IN IF s1.io.rxActivity THEN notify_all(s1) ELSE s1

\* ------------------------------------------------------------ the methods
\* The transport after construction.
InitPipe ==
  /\ txFd = NoFd /\ rxFd = NoFd /\ txEofFlag = FALSE
  /\ txQ = <<>> /\ rxQ = <<>> /\ txCur = <<>> /\ rxCur = <<>>
  /\ pc = [t \in Threads |-> "idle"]
  /\ evpc = "idle" /\ rfds = {} /\ wfds = {}
  /\ fdTab = [fd \in Fds |-> FreeFd]
  /\ wire = <<>> /\ rxBytes = <<>> /\ txLog = <<>> /\ rxPushed = <<>> /\ rxGot = <<>>
  /\ rxLost = 0 /\ txEarly = 0

\* No codec call is in progress.  T is the type asJson and fromJson are
\* instantiated at, value the argument of asJson, ret its result, w the
\* target of fromJson and w0 what it held before the call; edit tells how
\* the text in ret was obtained when asJson did not produce it.
NoCodec ==
  [pc |-> "none", T |-> "none", value |-> <<>>, retSize |-> 0, ret |-> <<>>,
   w0 |-> <<>>, w |-> <<>>, ok |-> FALSE, edit |-> "none"]

Init == InitPipe /\ codec = NoCodec

\* A setFds that looks at txFd only.
setFdsTxOnly(st, tfd, rfd) ==
  IF st.txFd # NoFd THEN [st EXCEPT !.io.threw = TRUE]
  ELSE [st EXCEPT !.txFd = tfd, !.rxFd = rfd]

\* setFds(_txFd, _rxFd)
setFds(st, tfd, rfd) ==
  IF st.txFd # NoFd THEN [st EXCEPT !.io.threw = TRUE]
  ELSE IF st.rxFd # NoFd THEN [st EXCEPT !.io.threw = TRUE]
  ELSE [st EXCEPT !.txFd = tfd, !.rxFd = rfd]

\* The caller opens the descriptors of pair p (a socket, or two pipes).
Opened(st, p) ==
  [st EXCEPT !.fdTab = [fd \in Fds |-> IF fd \in {p[1], p[2]} THEN OpenFd ELSE @[fd]]]

\* A caller hands over descriptors it has just opened; a call on a transport
\* that is still configured passes descriptors this model does not follow.
SetFds ==
  \E p \in FdPairs :
    IF txFd = NoFd /\ rxFd = NoFd
    THEN /\ \A fd \in {p[1], p[2]} : ~fdTab[fd].open
         /\ Commit(setFds(Opened(Now, p), p[1], p[2]))
    ELSE Commit(setFds(Now, p[1], p[2]))

\* No setFds has been called yet: the kernel has given out no descriptor.
Unconfigured(st) == \A fd \in Fds : st.fdTab[fd] = FreeFd

\* A tx that queues the record and leaves the sending to the event loop.
txNoFlush(st, s, script) ==
  [st EXCEPT !.txQ = Append(@, s), !.txLog = Append(@, s),
             !.txEarly = IF Unconfigured(st) THEN @ + 1 ELSE @]

\* tx(s)
tx(st, s, script) ==
  LET s1 == [st EXCEPT !.txQ = Append(@, s), !.txLog = Append(@, s),
                       !.txEarly = IF Unconfigured(st) THEN @ + 1 ELSE @]
  IN IF Len(s1.txQ) = 1 THEN txWork(s1, script) ELSE s1

\* Every call of tx() that can be made now.
TxCalls == {tx(Now, c[1], c[2]) : c \in TxRecords \X SendScripts}

Tx(maxTx) ==
  /\ Len(txLog) < maxTx
  /\ \E s \in TxRecords, script \in SendScripts : Commit(tx(Now, s, script))

\* txEof()
txEof(st) == [st EXCEPT !.txEofFlag = TRUE]

TxEof == \E r \in {txEof(Now)} : Commit(r)

\* A drain that returns the oldest record without removing it.
rxNonblockPeek(st) ==
  IF st.rxQ = <<>> THEN [st EXCEPT !.io.ret = <<>>]
  ELSE [st EXCEPT !.io.ret = Head(st.rxQ), !.io.popped = TRUE,
                  !.rxGot = Append(@, Head(st.rxQ))]

\* A drain that takes the newest record.
rxNonblockBack(st) ==
  IF st.rxQ = <<>> THEN [st EXCEPT !.io.ret = <<>>]
  ELSE [st EXCEPT !.io.ret = st.rxQ[Len(st.rxQ)], !.io.popped = TRUE,
                  !.rxGot = Append(@, st.rxQ[Len(st.rxQ)]),
                  !.rxQ = SubSeq(@, 1, Len(@) - 1)]

\* rxNonblock()
rxNonblock(st) ==
  IF st.rxQ = <<>> THEN [st EXCEPT !.io.ret = <<>>]
  ELSE [st EXCEPT !.io.ret = Head(st.rxQ), !.io.popped = TRUE,
                  !.rxGot = Append(@, Head(st.rxQ)),
                  !.rxQ = Tail(@)]

RxNonblock == \E r \in {rxNonblock(Now)} : Commit(r)

\* rxBlock() by thread t, from the lock acquisition (or from the return of
\* wait(), which holds the lock again) to the return or the next wait().
rxBlock(st, t) ==
  IF st.rxQ = <<>>
  THEN IF st.rxFd = NoFd
       THEN [st EXCEPT !.pc[t] = "idle", !.io.ret = <<>>]
       ELSE [st EXCEPT !.pc[t] = "waiting"]
  ELSE [st EXCEPT !.pc[t] = "idle",
                  !.io.ret = Head(st.rxQ), !.io.popped = TRUE,
                  !.rxGot = Append(@, Head(st.rxQ)),
                  !.rxQ = Tail(@)]

RxBlock(t) ==
  /\ pc[t] = "idle"
  /\ Commit(rxBlock(Now, t))

RxBlockResume(t) ==
  /\ pc[t] = "woken"
  /\ Commit(rxBlock(Now, t))

\* condition_variable::wait may return without a notification.
SpuriousWakeup(t) ==
  /\ pc[t] = "waiting"
  /\ Commit([Now EXCEPT !.pc[t] = "woken"])

\* A preSelect that asks for writability whenever the descriptor is set.
preSelectAlways(st) ==
  LET s1 == IF st.txFd # NoFd THEN [st EXCEPT !.wfds = @ \cup {st.txFd}] ELSE st
  IN IF s1.rxFd # NoFd THEN [s1 EXCEPT !.rfds = @ \cup {s1.rxFd}] ELSE s1

\* A preSelect that asks for writability only when data is pending.
preSelectDataOnly(st) ==
  LET s1 == IF st.txFd # NoFd /\ (Len(st.txCur) > 0 \/ st.txQ # <<>>)
            THEN [st EXCEPT !.wfds = @ \cup {st.txFd}] ELSE st
  IN IF s1.rxFd # NoFd THEN [s1 EXCEPT !.rfds = @ \cup {s1.rxFd}] ELSE s1

\* preSelect(rfds, wfds, efds, now): the event loop passes cleared sets.
preSelect(st) ==
  LET s1 == IF st.txFd # NoFd /\ (Len(st.txCur) > 0 \/ st.txQ # <<>> \/ st.txEofFlag)
            THEN [st EXCEPT !.wfds = @ \cup {st.txFd}] ELSE st
  IN IF s1.rxFd # NoFd THEN [s1 EXCEPT !.rfds = @ \cup {s1.rxFd}] ELSE s1

PreSelect ==
  /\ evpc = "idle"
  /\ Commit([preSelect(Now) EXCEPT !.evpc = "selected"])

\* postSelect(rfds, wfds, efds, now)
postSelect(st, rscript, wscript) ==
  LET s1 == IF st.rxFd # NoFd /\ st.rxFd \in st.rfds THEN rxWork(st, rscript) ELSE st
  IN IF s1.txFd # NoFd /\ s1.txFd \in s1.wfds THEN txWork(s1, wscript) ELSE s1

\* The answers the kernel may give when select() reported the descriptors
\* rr readable and wr writable, the peer having maxRx bytes in all to send.
ReadScriptsFor(rr, maxRx) ==
  IF rxFd \in rr
  THEN ReadScriptsUpTo(maxRx - Len(rxBytes), MaxBurst)
  ELSE {<<>>}

\* Without a byte pending txWork makes no send(), whatever the kernel
\* would have answered.
SendScriptsFor(wr) ==
  IF txFd \in wr /\ (txCur # <<>> \/ txQ # <<>>) THEN SendScripts ELSE {<<>>}

\* select() reduces the sets to the ready descriptors rr, wr, and postSelect
\* services them; the event loop clears its sets for the next round.
PostSelect(maxRx) ==
  /\ evpc = "selected"
  /\ \E rr \in SUBSET rfds, wr \in SUBSET wfds :
     \E rs \in ReadScriptsFor(rr, maxRx), ws \in SendScriptsFor(wr) :
       Commit([postSelect([Now EXCEPT !.rfds = rr, !.wfds = wr], rs, ws)
               EXCEPT !.evpc = "idle", !.rfds = {}, !.wfds = {}])

\* Every call of postSelect the event loop can make now.
PostSelectCalls(maxRx) ==
  UNION {{postSelect([Now EXCEPT !.rfds = c[1], !.wfds = c[2]], rs, ws) :
            rs \in ReadScriptsFor(c[1], maxRx), ws \in SendScriptsFor(c[2])} :
         c \in (SUBSET rfds) \X (SUBSET wfds)}

\* --------------------------------------------------------- specifications
\* Both directions at work, the consumers polling with rxNonblock.
Next ==
  \/ SetFds
  \/ Tx(DuplexTx)
  \/ TxEof
  \/ RxNonblock
  \/ PreSelect
  \/ PostSelect(DuplexRxBytes)

Spec == Init /\ [][Next]_vars

\* The transmit direction at length.  The peer sends no data, but the
\* receive direction still ends (end of stream, read error) at any moment,
\* which is all the transmit direction can see of it: the shared descriptor.
NextTx ==
  \/ SetFds
  \/ Tx(MaxTx)
  \/ TxEof
  \/ PreSelect
  \/ PostSelect(0)

SpecTx == Init /\ [][NextTx]_vars

\* The receive direction at length.  Nothing is passed to tx(), but the
\* transmit direction still ends (txEof) at any moment.
NextRx ==
  \/ SetFds
  \/ TxEof
  \/ RxNonblock
  \/ \E t \in Threads : RxBlock(t)
  \/ \E t \in Threads : RxBlockResume(t)
  \/ \E t \in Threads : SpuriousWakeup(t)
  \/ PreSelect
  \/ PostSelect(MaxRxBytes)

SpecRx == Init /\ [][NextRx]_vars

\* ---------------------------------------------------------------- fairness
\* select() reports the transmit descriptor writable and the kernel takes
\* at least one byte per send() that the script answers.
PostSelectWritable(maxRx) ==
  /\ evpc = "selected"
  /\ txFd \in wfds
  /\ \E rr \in SUBSET rfds :
     \E rs \in ReadScriptsFor(rr, maxRx),
        ws \in {s \in SendScripts : s # <<>> /\ \A i \in 1..Len(s) : s[i].nw > 0} :
       Commit([postSelect([Now EXCEPT !.rfds = rr], rs, ws)
               EXCEPT !.evpc = "idle", !.rfds = {}, !.wfds = {}])

\* The event loop keeps running, and a writable descriptor that is asked
\* about again and again is reported writable again and again.
NextTxLive ==
  \/ SetFds
  \/ Tx(LiveTx)
  \/ TxEof
  \/ PreSelect
  \/ PostSelect(0)

FairSpecTx ==
  /\ Init /\ [][NextTxLive]_vars
  /\ WF_vars(PreSelect)
  /\ WF_vars(PostSelect(0))
  /\ SF_vars(PostSelectWritable(0))

\* The event loop keeps running, and a thread that was notified gets the
\* lock back.  A spurious wakeup is never owed.
NextRxLive ==
  \/ SetFds
  \/ TxEof
  \/ RxNonblock
  \/ \E t \in Threads : RxBlock(t)
  \/ \E t \in Threads : RxBlockResume(t)
  \/ \E t \in Threads : SpuriousWakeup(t)
  \/ PreSelect
  \/ PostSelect(LiveRxBytes)

FairSpecRx ==
  /\ Init /\ [][NextRxLive]_vars
  /\ WF_vars(PreSelect)
  /\ WF_vars(PostSelect(LiveRxBytes))
  /\ \A t \in Threads : WF_vars(RxBlockResume(t))

\* ---------------------------------------------------------------- the codec
\* jsonio.h.  A character is a one-character string, a JSON text a sequence
\* of characters; the end of the sequence is the terminating null of the C
\* string.  The templates are instantiated at the types of Types: T names
\* the C++ type, and a value of type T is a number (U32), a sequence of
\* characters (string), a sequence of values (vector), a function from keys
\* to values (map), or <<>> / <<v>> (a null / non-null shared_ptr).
Types ==
  {"U32", "string", "shared_ptr<U32>",
   "vector<U32>", "vector<string>", "vector<shared_ptr<U32>>",
   "vector<vector<U32>>", "vector<map<string,U32>>",
   "map<string,U32>", "map<string,vector<U32>>"}

Shape(T) ==
  CASE T \in {"U32", "string"} -> T
    [] T = "shared_ptr<U32>" -> "shared_ptr"
    [] T \in {"vector<U32>", "vector<string>", "vector<shared_ptr<U32>>",
              "vector<vector<U32>>", "vector<map<string,U32>>"} -> "vector"
    [] T \in {"map<string,U32>", "map<string,vector<U32>>"} -> "map"

\* The template argument: the element type, the mapped type, the pointee.
ElemT(T) ==
  CASE T \in {"vector<U32>", "shared_ptr<U32>", "map<string,U32>"} -> "U32"
    [] T = "vector<string>" -> "string"
    [] T = "vector<shared_ptr<U32>>" -> "shared_ptr<U32>"
    [] T \in {"vector<vector<U32>>", "map<string,vector<U32>>"} -> "vector<U32>"
    [] T = "vector<map<string,U32>>" -> "map<string,U32>"

\* The key type of a map.
KeyT(T) == "string"

\* The types rdJson is defined for: there is no rdJson for shared_ptr.
ReadTypes == Types \ {"shared_ptr<U32>", "vector<shared_ptr<U32>>"}

Alphabet == <<"a", "b">>
Digits == <<"0", "1", "2", "3", "4", "5", "6", "7", "8", "9">>
U32s == {0, 12}
Strings == {<<>>, <<"a">>, <<"b">>}

RECURSIVE Values(_)
Values(T) ==
  CASE Shape(T) = "U32" -> U32s
    [] Shape(T) = "string" -> Strings
    [] Shape(T) = "shared_ptr" -> {<<>>} \cup {<<v>> : v \in Values(ElemT(T))}
    [] Shape(T) = "vector" -> UNION {[1..n -> Values(ElemT(T))] : n \in 0..MaxElems}
    [] Shape(T) = "map" ->
         UNION {[ks -> Values(ElemT(T))] : ks \in SUBSET Values(KeyT(T))}

\* operator< of std::string, which orders the keys of a map.
CharOrd(c) == CHOOSE i \in 1..Len(Alphabet) : Alphabet[i] = c

RECURSIVE StrLess(_, _)
StrLess(a, b) ==
  IF b = <<>> THEN FALSE
  ELSE IF a = <<>> THEN TRUE
  ELSE IF Head(a) = Head(b) THEN StrLess(Tail(a), Tail(b))
  ELSE CharOrd(Head(a)) < CharOrd(Head(b))

\* begin() .. end() of a map: its entries <<key, value>> in key order.
RECURSIVE Entries(_)
Entries(m) ==
  IF DOMAIN m = {} THEN <<>>
  ELSE LET k == CHOOSE x \in DOMAIN m : \A y \in DOMAIN m \ {x} : StrLess(x, y)
       IN <<<<k, m[k]>>>> \o Entries([y \in DOMAIN m \ {k} |-> m[y]])

RECURSIVE wrJsonSize(_, _)
RECURSIVE wrJson(_, _)

\* U32 (jsonio.cc): decimal ASCII, no leading zeros; the estimate is taken
\* at its tightest, the number of digits written.
RECURSIVE wrJsonU32(_)
wrJsonU32(n) ==
  IF n < 10 THEN <<Digits[n + 1]>>
  ELSE wrJsonU32(n \div 10) \o <<Digits[(n % 10) + 1]>>

wrJsonSizeU32(n) == Len(wrJsonU32(n))

\* string (jsonio.cc): a JSON string literal; none of the characters of
\* Alphabet needs an escape.  The estimate is again the tightest.
wrJsonString(str) == <<"\"">> \o str \o <<"\"">>

wrJsonSizeString(str) == 2 + Len(str)

\* shared_ptr<T>, lines 138-157.
wrJsonSizePtr(p, T) == IF p # <<>> THEN wrJsonSize(p[1], ElemT(T)) ELSE 4

wrJsonPtr(p, T) == IF p # <<>> THEN wrJson(p[1], ElemT(T)) ELSE <<"n", "u", "l", "l">>

\* The loop of lines 195-197: the estimates of the elements, added up.
RECURSIVE SizeOfElems(_, _)
SizeOfElems(arr, T) ==
  IF arr = <<>> THEN 0 ELSE wrJsonSize(Head(arr), T) + SizeOfElems(Tail(arr), T)

\* A size pass that counts one byte per element only.
wrJsonSizeVectorNoBrackets(arr, T) == Len(arr) + SizeOfElems(arr, ElemT(T))

\* vector<T>, lines 192-198.
wrJsonSizeVector(arr, T) == 2 + Len(arr) + SizeOfElems(arr, ElemT(T))

\* The loop of lines 204-208.
RECURSIVE WriteElems(_, _, _)
WriteElems(arr, T, sep) ==
  IF arr = <<>> THEN <<>>
  ELSE (IF sep THEN <<",">> ELSE <<>>) \o wrJson(Head(arr), T)
       \o WriteElems(Tail(arr), T, TRUE)

\* vector<T>, lines 200-210.
wrJsonVector(arr, T) == <<"[">> \o WriteElems(arr, ElemT(T), FALSE) \o <<"]">>

\* The loop of lines 293-297.
RECURSIVE SizeOfEntries(_, _)
SizeOfEntries(es, T) ==
  IF es = <<>> THEN 0
  ELSE wrJsonSize(Head(es)[1], KeyT(T)) + wrJsonSize(Head(es)[2], ElemT(T)) + 2
       + SizeOfEntries(Tail(es), T)

\* map<KT,VT>, lines 290-298.
wrJsonSizeMap(arr, T) == 2 + SizeOfEntries(Entries(arr), T)

\* The loop of lines 304-310.
RECURSIVE WriteEntries(_, _, _)
WriteEntries(es, T, sep) ==
  IF es = <<>> THEN <<>>
  ELSE (IF sep THEN <<",">> ELSE <<>>) \o wrJson(Head(es)[1], KeyT(T)) \o <<":">>
       \o wrJson(Head(es)[2], ElemT(T)) \o WriteEntries(Tail(es), T, TRUE)

\* map<KT,VT>, lines 300-312.
wrJsonMap(arr, T) == <<"{">> \o WriteEntries(Entries(arr), T, FALSE) \o <<"}">>

\* Overload resolution.
wrJsonSize(v, T) ==
  CASE Shape(T) = "U32" -> wrJsonSizeU32(v)
    [] Shape(T) = "string" -> wrJsonSizeString(v)
    [] Shape(T) = "shared_ptr" -> wrJsonSizePtr(v, T)
    [] Shape(T) = "vector" -> wrJsonSizeVector(v, T)
    [] Shape(T) = "map" -> wrJsonSizeMap(v, T)

wrJson(v, T) ==
  CASE Shape(T) = "U32" -> wrJsonU32(v)
    [] Shape(T) = "string" -> wrJsonString(v)
    [] Shape(T) = "shared_ptr" -> wrJsonPtr(v, T)
    [] Shape(T) = "vector" -> wrJsonVector(v, T)
    [] Shape(T) = "map" -> wrJsonMap(v, T)

\* *s: the character under the cursor, Nul at the end of the text.
Nul == ""
Cur(s) == IF s = <<>> THEN Nul ELSE Head(s)

\* jsonSkipSpace, lines 64-74.
RECURSIVE jsonSkipSpace(_)
jsonSkipSpace(s) ==
  IF Cur(s) \in {" ", "\t", "\n", "\r"} THEN jsonSkipSpace(Tail(s)) ELSE s

\* What a read returns: the bool, the target as the call leaves it, the cursor.
Rd(ok, value, s) == [ok |-> ok, value |-> value, s |-> s]

\* T tmp: a default-constructed value (an integer is indeterminate until
\* rdJson assigns it, and is never looked at before).
EmptyMap == [k \in {} |-> 0]
Default(T) ==
  CASE Shape(T) = "U32" -> 0
    [] Shape(T) = "map" -> EmptyMap
    [] OTHER -> <<>>

RECURSIVE rdJson(_, _, _)

\* U32 (jsonio.cc): leading space skipped, then one or more decimal digits.
DigitVal(c) == (CHOOSE i \in 1..10 : Digits[i] = c) - 1
IsDigit(c) == \E i \in 1..10 : Digits[i] = c

RECURSIVE rdDigits(_, _)
rdDigits(s, n) ==
  IF IsDigit(Cur(s)) THEN rdDigits(Tail(s), 10 * n + DigitVal(Head(s)))
  ELSE Rd(TRUE, n, s)

rdJsonU32(s0, value) ==
  LET s == jsonSkipSpace(s0)
  IN IF IsDigit(Cur(s)) THEN rdDigits(s, 0) ELSE Rd(FALSE, value, s)

\* string (jsonio.cc): leading space skipped, then a JSON string literal.
RECURSIVE rdChars(_, _)
rdChars(s, str) ==
  IF Cur(s) = "\"" THEN Rd(TRUE, str, Tail(s))
  ELSE IF Cur(s) = Nul THEN Rd(FALSE, str, s)
  ELSE rdChars(Tail(s), Append(str, Head(s)))

rdJsonString(s0, value) ==
  LET s == jsonSkipSpace(s0)
  IN IF Cur(s) = "\"" THEN rdChars(Tail(s), <<>>) ELSE Rd(FALSE, value, s)

\* The loop of lines 238-254, and line 255 behind each break.
RECURSIVE rdVectorLoop(_, _, _)
rdVectorLoop(s0, T, arr) ==
  LET s == jsonSkipSpace(s0)
  IN IF Cur(s) = "]" THEN Rd(TRUE, arr, Tail(s))
     ELSE LET r == rdJson(s, T, Default(T))
          IN IF ~r.ok THEN Rd(FALSE, arr, r.s)
             ELSE LET arr2 == Append(arr, r.value)
                      s2 == jsonSkipSpace(r.s)
                  IN IF Cur(s2) = "," THEN rdVectorLoop(Tail(s2), T, arr2)
                     ELSE IF Cur(s2) = "]" THEN Rd(TRUE, arr2, Tail(s2))
                     ELSE Rd(FALSE, arr2, s2)

\* A read that appends to what the target holds.
rdJsonVectorNoClear(s0, T, arr) ==
  LET s == jsonSkipSpace(s0)
  IN IF Cur(s) # "[" THEN Rd(FALSE, arr, s)
     ELSE rdVectorLoop(Tail(s), ElemT(T), arr)

\* vector<T>, lines 232-257.
rdJsonVector(s0, T, arr) ==
  LET s == jsonSkipSpace(s0)
  IN IF Cur(s) # "[" THEN Rd(FALSE, arr, s)
     ELSE rdVectorLoop(Tail(s), ElemT(T), <<>>)

\* arr[ktmp] = vtmp
MapPutFirst(arr, k, v) ==
  [x \in DOMAIN arr \cup {k} |-> IF x \in DOMAIN arr THEN arr[x] ELSE v]

MapPut(arr, k, v) == [x \in DOMAIN arr \cup {k} |-> IF x = k THEN v ELSE arr[x]]

\* The loop of lines 320-343, and line 344 behind each break.
RECURSIVE rdMapLoop(_, _, _)
rdMapLoop(s0, T, arr) ==
  LET s == jsonSkipSpace(s0)
  IN IF Cur(s) = "}" THEN Rd(TRUE, arr, Tail(s))
     ELSE LET rk == rdJson(s, KeyT(T), Default(KeyT(T)))
              s1 == jsonSkipSpace(rk.s)
          IN IF ~rk.ok THEN Rd(FALSE, arr, rk.s)
             ELSE IF Cur(s1) # ":" THEN Rd(FALSE, arr, s1)
             ELSE LET rv == rdJson(jsonSkipSpace(Tail(s1)), ElemT(T), Default(ElemT(T)))
                      arr2 == MapPut(arr, rk.value, rv.value)
                      s2 == jsonSkipSpace(rv.s)
                  IN IF ~rv.ok THEN Rd(FALSE, arr, rv.s)
                     ELSE IF Cur(s2) = "," THEN rdMapLoop(Tail(s2), T, arr2)
                     ELSE IF Cur(s2) = "}" THEN Rd(TRUE, arr2, Tail(s2))
                     ELSE Rd(FALSE, arr2, s2)

\* map<KT,VT>, lines 314-346.
rdJsonMap(s0, T, arr) ==
  LET s == jsonSkipSpace(s0)
  IN IF Cur(s) # "{" THEN Rd(FALSE, arr, s)
     ELSE rdMapLoop(Tail(s), T, EmptyMap)

rdJson(s, T, value) ==
  CASE Shape(T) = "U32" -> rdJsonU32(s, value)
    [] Shape(T) = "string" -> rdJsonString(s, value)
    [] Shape(T) = "vector" -> rdJsonVector(s, T, value)
    [] Shape(T) = "map" -> rdJsonMap(s, T, value)

\* asJson(value), lines 411-420: the size pass, startWrite(retSize), the
\* write pass, endWrite(p).
asJson(c) ==
  [c EXCEPT !.pc = "encoded",
            !.retSize = wrJsonSize(c.value, c.T),
            !.ret = wrJson(c.value, c.T)]

\* fromJson(sj, value), lines 422-426, into the target w.
fromJson(c) ==
  LET r == rdJson(c.ret, c.T, c.w)
  IN [c EXCEPT !.pc = "decoded", !.ok = r.ok, !.w = r.value]

pipeVars ==
  <<txFd, rxFd, txEofFlag, txQ, rxQ, txCur, rxCur, pc, evpc, rfds, wfds,
    fdTab, wire, rxBytes, txLog, txEarly, rxPushed, rxGot, rxLost>>

\* Something a target may hold before the call, besides a fresh value.
RECURSIVE Prior(_)
Prior(T) ==
  CASE Shape(T) = "U32" -> 7
    [] Shape(T) = "string" -> <<"b">>
    [] Shape(T) = "shared_ptr" -> <<Prior(ElemT(T))>>
    [] Shape(T) = "vector" -> <<Prior(ElemT(T))>>
    [] Shape(T) = "map" -> [k \in {<<"b">>} |-> Prior(ElemT(T))]

\* A value to encode, and a target that holds some value of its type.
InitJson ==
  /\ InitPipe
  /\ \E T \in Types : \E v \in Values(T) :
     \E w0 \in {Default(T), Prior(T)} :
       codec = [NoCodec EXCEPT !.pc = "start", !.T = T, !.value = v, !.w0 = w0, !.w = w0]

AsJson ==
  /\ codec.pc = "start"
  /\ codec' = asJson(codec)
  /\ UNCHANGED pipeVars

FromJson ==
  /\ codec.pc = "encoded"
  /\ codec.T \in ReadTypes
  /\ codec' = fromJson(codec)
  /\ UNCHANGED pipeVars

NextJson == AsJson \/ FromJson

SpecJson == InitJson /\ [][NextJson]_vars

\* ------------------------------------------------------- malformed input
\* Texts that are not JSON, each made from the encoding t of a value by
\* one edit at position i.
\* The text ends before its last character.
Truncated(t) == {SubSeq(t, 1, i) : i \in 0..(Len(t) - 1)}

Replace(t, i, c) == [t EXCEPT ![i] = c]
Insert(t, i, c) == SubSeq(t, 1, i - 1) \o <<c>> \o SubSeq(t, i, Len(t))

\* A ',' or a ':' is missing: a space stands in its place.
Unseparated(t) == {Replace(t, i, " ") : i \in {j \in 1..Len(t) : t[j] \in {",", ":"}}}

\* A ',' that no element follows: one is put in front of a closing bracket.
Dangling(t) == {Insert(t, i, ",") : i \in {j \in 1..Len(t) : t[j] \in {"]", "}"}}}

\* Another structural character stands where one is required.
Other(c) ==
  CASE c = "," -> ":" [] c = ":" -> "," [] c = "]" -> "}" [] c = "}" -> "]"

Unexpected(t) ==
  {Replace(t, i, Other(t[i])) : i \in {j \in 1..Len(t) : t[j] \in {",", ":", "]", "}"}}}

Edited(t, edit) ==
  CASE edit = "truncated" -> Truncated(t)
    [] edit = "unseparated" -> Unseparated(t)
    [] edit = "dangling" -> Dangling(t)
    [] edit = "unexpected" -> Unexpected(t)

\* The vectors and maps rdJson is defined for.
ContainerTypes == {T \in ReadTypes : Shape(T) \in {"vector", "map"}}

\* fromJson is handed a malformed text for a vector or a map.
InitMalformed ==
  /\ InitPipe
  /\ \E T \in ContainerTypes : \E v \in Values(T) :
     \E edit \in {"truncated", "unseparated", "dangling", "unexpected"} :
     \E text \in Edited(wrJson(v, T), edit) :
     \E w0 \in {Default(T), Prior(T)} :
       codec = [NoCodec EXCEPT !.pc = "encoded", !.T = T, !.value = v, !.ret = text,
                               !.edit = edit, !.w0 = w0, !.w = w0]

NextMalformed == FromJson

SpecMalformed == InitMalformed /\ [][NextMalformed]_vars

\* ---------------------------------------------------------- repeated keys
\* Objects as a peer may write them: "key":value entries in any order, a
\* key any number of times.
MapTypes == {T \in ReadTypes : Shape(T) = "map"}

EntryLists(T) ==
  UNION {[1..n -> Strings \X {Default(ElemT(T)), Prior(ElemT(T))}] : n \in 0..MaxEntries}

ObjectText(es, T) == <<"{">> \o WriteEntries(es, T, FALSE) \o <<"}">>

\* fromJson is handed the text of an entry list, es, kept in codec.value.
InitObject ==
  /\ InitPipe
  /\ \E T \in MapTypes : \E es \in EntryLists(T) :
     \E w0 \in {Default(T), Prior(T)} :
       codec = [NoCodec EXCEPT !.pc = "encoded", !.T = T, !.value = es,
                               !.ret = ObjectText(es, T), !.edit = "entries",
                               !.w0 = w0, !.w = w0]

NextObject == FromJson

SpecObject == InitObject /\ [][NextObject]_vars

\* ------------------------------------------------------------- the mutex
\* preSelect in two steps, to see what can happen while a method is inside
\* its critical section: line 23 takes mutex0, lines 24-30 run with it held
\* and the return releases it.  In every other action the lock is taken and
\* released within the step.
mutex0 == IF evpc = "preSelect" THEN "eventloop" ELSE "free"

\* Line 23: unique_lock<mutex> lock(mutex0).
PreSelectLock ==
  /\ evpc = "idle"
  /\ Commit([Now EXCEPT !.evpc = "preSelect"])

\* Lines 24-30, then the unlock.
PreSelectBody ==
  /\ evpc = "preSelect"
  /\ Commit([preSelect(Now) EXCEPT !.evpc = "selected"])

\* The methods that take mutex0 wait until it is free; txEof (lines 210-213)
\* takes no lock and runs at any moment.
NextLock ==
  \/ mutex0 = "free" /\ SetFds
  \/ mutex0 = "free" /\ Tx(DuplexTx)
  \/ TxEof
  \/ mutex0 = "free" /\ RxNonblock
  \/ PreSelectLock
  \/ PreSelectBody
  \/ mutex0 = "free" /\ PostSelect(DuplexRxBytes)

SpecLock == Init /\ [][NextLock]_vars

\* ------------------------------------------------------------ reference
\* The wire image of a sequence of records: each followed by a newline.
RECURSIVE Frame(_)
Frame(q) == IF q = <<>> THEN <<>> ELSE Head(q) \o <<NL>> \o Frame(Tail(q))

IsPrefix(a, b) == Len(a) <= Len(b) /\ SubSeq(b, 1, Len(a)) = a

\* The positions of the newlines of a stream.
NLPos(s) == {i \in 1..Len(s) : s[i] = NL}

\* The newline-terminated segments of a stream, in order, and what follows
\* the last newline.
Segments(s) ==
  LET n == Cardinality(NLPos(s))
      nth(k) == CHOOSE i \in NLPos(s) : Cardinality({j \in NLPos(s) : j < i}) = k - 1
      from(k) == IF k = 1 THEN 1 ELSE nth(k - 1) + 1
  IN [k \in 1..n |-> SubSeq(s, from(k), nth(k) - 1)]

Remainder(s) ==
  LET e == IF NLPos(s) = {} THEN 0
           ELSE CHOOSE i \in NLPos(s) : \A j \in NLPos(s) : j <= i
  IN SubSeq(s, e + 1, Len(s))

\* The bytes of the records of a queue.
RECURSIVE TotalLen(_)
TotalLen(q) == IF q = <<>> THEN 0 ELSE Len(Head(q)) + TotalLen(Tail(q))

\* The bytes a call has read: what st2.rxBytes holds beyond st1.rxBytes.
NewBytes(st1, st2) == SubSeq(st2.rxBytes, Len(st1.rxBytes) + 1, Len(st2.rxBytes))

\* setFds has configured the transport at some time.
Configured == \E fd \in Fds : fdTab[fd] # FreeFd

\* A descriptor was configured and both directions have closed again.
BothClosed == txFd = NoFd /\ rxFd = NoFd /\ \E fd \in Fds : fdTab[fd] # FreeFd

\* ------------------------------------------------------------------ claims

\* C1: the bytes the transmit descriptor accepted are a prefix of the
\* records in tx() lock order, each followed by one newline; what is not
\* yet on the wire is exactly txCur followed by the records of txQ.
C1_TxFifo ==
  /\ IsPrefix(wire, Frame(txLog))
  /\ wire \o txCur \o Frame(txQ) = Frame(txLog)

\* Three records queued, the second one sent in part.
C1_Witness ==
  /\ Len(txLog) = 3 /\ txLog[1] # txLog[2]
  /\ Len(wire) = 3 /\ Len(txCur) = 1 /\ Len(txQ) = 1

\* C2: however the stream is cut into chunks, the records pushed onto rxQ
\* are the newline-terminated segments of the bytes read so far, and rxCur
\* holds the bytes after the last newline (as long as no end of stream has
\* thrown an unterminated tail away).
C2_Framing ==
  rxLost = 0 =>
    /\ rxPushed = Segments(rxBytes)
    /\ rxCur = Remainder(rxBytes)

\* A record framed from a stream that did not end with it: its tail is
\* carried over.
C2_Witness ==
  /\ rxLost = 0 /\ Len(rxBytes) = 3
  /\ rxPushed = <<<<97>>>> /\ rxCur = <<97>> /\ rxFd # NoFd

\* C4: every record pushed onto rxQ is popped exactly once and in order,
\* and a drain gives the empty indicator only when rxQ is empty, open or
\* closed.
C4_RxFifo ==
  /\ rxPushed = rxGot \o rxQ
  /\ rxQ # <<>> =>
       /\ rxNonblock(Now).io.popped
       /\ \A t \in Threads : pc[t] # "waiting" => rxBlock(Now, t).io.popped

\* The receive direction closed with a record still queued behind one
\* already returned.
C4_Witness == rxFd = NoFd /\ rxQ # <<>> /\ rxGot # <<>> /\ rxBytes # <<>>

\* C5: a pass that pushes a record wakes every waiting thread; no thread
\* waits while a record is queued; a woken thread with a record queued runs
\* on until it has returned or another consumer has emptied the queue.
C5_Wakeup ==
  /\ [][Len(rxPushed') > Len(rxPushed) => \A t \in Threads : pc'[t] # "waiting"]_vars
  /\ [](\A t \in Threads : pc[t] = "waiting" => rxQ = <<>>)
  /\ \A t \in Threads :
       (pc[t] = "woken" /\ rxQ # <<>>) ~> (pc[t] = "idle" \/ rxQ = <<>>)

\* Both threads were waiting and are woken with a record queued.
C5_Witness == rxQ # <<>> /\ \A t \in Threads : pc[t] = "woken"

\* C3: a thread waiting in rxBlock() on a closed, empty transport leaves
\* rxBlock() in the end.
C3_ClosedUnblocks ==
  \A t \in Threads :
    [](pc[t] = "waiting" /\ rxFd = NoFd /\ rxQ = <<>> => <>(pc[t] = "idle"))

\* C6: rxNonblock never waits; on a non-empty queue it returns the oldest
\* record and leaves the rest in order, on an empty queue it returns the
\* empty indicator and changes nothing, open or closed.
C6_RxNonblock ==
  LET r == rxNonblock(Now) IN
    /\ r.pc = pc
    /\ IF rxQ # <<>>
       THEN /\ r.io.popped /\ r.io.ret = Head(rxQ)
            /\ r = [Now EXCEPT !.rxQ = Tail(rxQ), !.rxGot = Append(rxGot, Head(rxQ)),
                               !.io = r.io]
       ELSE /\ ~r.io.popped /\ r.io.ret = <<>>
            /\ r = Now

\* The queue was drained and the receive direction is closed.
C6_Witness == rxQ = <<>> /\ rxFd = NoFd /\ Len(rxGot) >= 2

\* C7: a direction that is still set has an open descriptor that was not
\* shut down on its side; on a shared descriptor whose write side was shut
\* down rxWork still frames an arriving record, and on one whose read side
\* was shut down txWork still sends the pending bytes.
C7_HalfClose ==
  /\ txFd # NoFd => fdTab[txFd].open /\ ~fdTab[txFd].shutWr
  /\ rxFd # NoFd => fdTab[rxFd].open /\ ~fdTab[rxFd].shutRd
  /\ \A fd \in Fds : fdTab[fd].closes <= 1
  /\ (rxFd # NoFd /\ fdTab[rxFd].shutWr) =>
       LET r == postSelect([Now EXCEPT !.rfds = {rxFd}, !.wfds = {}],
                           <<ReadOk(<<97, NL>>)>>, <<>>)
       IN r.rxQ = Append(rxQ, rxCur \o <<97>>) /\ r.rxFd = rxFd
  /\ (txFd # NoFd /\ fdTab[txFd].shutRd /\ txCur \o Frame(txQ) # <<>>) =>
       LET r == postSelect([Now EXCEPT !.rfds = {}, !.wfds = {txFd}],
                           <<>>, <<SendOk(1)>>)
       IN r.wire = Append(wire, (txCur \o Frame(txQ))[1])

\* The transmit direction of a shared descriptor closed: the descriptor is
\* open, its write side shut down, the receive direction still set.
C7_Witness ==
  /\ txFd = NoFd /\ rxFd # NoFd
  /\ fdTab[rxFd].open /\ fdTab[rxFd].shutWr /\ fdTab[rxFd].closes = 0

\* C8: once both directions have closed, every descriptor was closed exactly
\* once and no call of tx, txEof, rxNonblock, rxBlock, preSelect or
\* postSelect makes a read() or a send().
C8_NoIoAfterClose ==
  BothClosed =>
    /\ \A fd \in Fds : fdTab[fd] # FreeFd => ~fdTab[fd].open /\ fdTab[fd].closes = 1
    /\ \A r \in TxCalls \cup PostSelectCalls(DuplexRxBytes)
                \cup {txEof(Now), rxNonblock(Now), preSelect(Now)}
                \cup {rxBlock(Now, t) : t \in Threads} :
         r.io.nsend = 0 /\ r.io.nread = 0

\* C9: a call closes the transmit direction on account of end-of-stream
\* only with txQ and txCur empty and every record passed to tx() on the
\* wire, newline included.
C9_EofFlushes ==
  \A r \in TxCalls \cup PostSelectCalls(0) :
    (r.io.txClose = "eof" /\ txFd # NoFd) =>
      /\ r.txFd = NoFd
      /\ r.txQ = <<>> /\ r.txCur = <<>>
      /\ r.wire = Frame(r.txLog)

\* The transmit direction is closed after end-of-stream with three records
\* on the wire.
C9_Witness ==
  /\ txEofFlag /\ txFd = NoFd /\ Len(txLog) = 3
  /\ wire = Frame(txLog) /\ \E fd \in Fds : fdTab[fd] # FreeFd

\* C10: after txEof() on an open transmit descriptor, with the event loop
\* running and the descriptor reported writable, the transmit direction
\* closes in the end.
C10_EofCloses == (txEofFlag /\ txFd # NoFd) ~> (txFd = NoFd)

\* End-of-stream closed a transport to which nothing was ever passed.
C10_Witness ==
  /\ txEofFlag /\ txFd = NoFd /\ txLog = <<>>
  /\ \E fd \in Fds : fdTab[fd] # FreeFd

\* C11: a pass that meets the end of the stream with an unterminated tail
\* pending ends with rxCur empty and the receive direction closed, throws
\* nothing, keeps what was queued and pushes only the newline-terminated
\* segments of what it had and read; every byte read is in a pushed record,
\* is the newline after one, is in rxCur, or was discarded, so no discarded
\* byte is part of any record.
C11_EofDiscards ==
  /\ TotalLen(rxPushed) + Len(rxPushed) + Len(rxCur) + rxLost = Len(rxBytes)
  /\ \A r \in PostSelectCalls(MaxRxBytes) :
       r.io.diag =>
         LET seen == rxCur \o NewBytes(Now, r) IN
           /\ r.rxCur = <<>> /\ r.rxFd = NoFd /\ ~r.io.threw
           /\ r.rxPushed = rxPushed \o Segments(seen)
           /\ r.rxQ = rxQ \o Segments(seen)
           /\ Remainder(seen) # <<>>
           /\ r.rxLost = rxLost + Len(Remainder(seen))

\* The stream ended in the middle of a record, behind a record that is
\* still queued.
C11_Witness ==
  /\ rxLost > 0 /\ rxFd = NoFd /\ rxCur = <<>>
  /\ rxQ = <<<<97>>>> /\ rxPushed = rxQ /\ Len(rxBytes) = 3

\* C12: the end-of-stream latch is written only while no other thread is
\* inside a critical section of mutex0.
C12_LatchUnderMutex == [][txEofFlag' # txEofFlag => mutex0 = "free"]_vars

\* C13: while txFd or rxFd is set, setFds throws and leaves every member
\* (and the kernel's descriptors) as they were, whichever direction is the
\* one still open.
C13_SetFdsTwice ==
  (txFd # NoFd \/ rxFd # NoFd) =>
    \A a \in Fds, b \in Fds :
      LET r == setFds(Now, a, b)
      IN r.io.threw /\ [r EXCEPT !.io = NoIo] = Now

\* Only the transmit direction is still open, end-of-stream requested and
\* part of a record pending.
C13_Witness ==
  /\ txFd # NoFd /\ rxFd = NoFd /\ txEofFlag /\ txCur # <<>>

\* C14: the write pass of asJson emits no more bytes than the size pass
\* computed, for vectors, maps and shared_ptrs of every length and nesting
\* over elements whose estimates are exact.
C14_SizeBound == codec.pc # "start" /\ codec.pc # "none" => Len(codec.ret) <= codec.retSize

\* A vector of two empty maps was encoded.
C14_Witness ==
  /\ codec.pc = "encoded" /\ codec.T = "vector<map<string,U32>>"
  /\ codec.ret = <<"[", "{", "}", ",", "{", "}", "]">> /\ codec.retSize = 8

\* C15: fromJson(asJson(v), w) returns true and leaves w equal to v, for
\* vectors and maps, empty and nested, whatever w held before.
C15_RoundTrip == codec.pc = "decoded" => codec.ok /\ codec.w = codec.value

\* A map of vectors, one of them empty, was read back into a target that
\* held another entry.
C15_Witness ==
  /\ codec.pc = "decoded" /\ codec.T = "map<string,vector<U32>>"
  /\ codec.w0 = Prior(codec.T)
  /\ codec.ret = <<"{", "\"", "\"", ":", "[", "]", ",",
                   "\"", "a", "\"", ":", "[", "0", ",", "1", "2", "]", "}">>
  /\ DOMAIN codec.w = {<<>>, <<"a">>}

\* C16: a transmit pass whose first send() accepts only part of the current
\* record keeps exactly the unsent suffix in txCur and makes no other send().
C16_PartialStops ==
  LET cur == txNext(Now).txCur IN
    txFd # NoFd =>
      \A ws \in SendScripts :
        (ws # <<>> /\ ws[1].nw > 0 /\ ws[1].nw < Len(cur)) =>
          LET r == postSelect([Now EXCEPT !.rfds = {}, !.wfds = {txFd}], <<>>, ws)
          IN /\ r.io.nsend = 1
             /\ r.txCur = erase(cur, ws[1].nw)
             /\ r.wire = wire \o SubSeq(cur, 1, ws[1].nw)

\* C17: a pass whose read() fails (not EAGAIN) leaves the receive direction
\* as a pass whose read() returns 0 does: closed, rxCur empty, rxQ as it
\* was, the same threads waiting.
C17_ErrorLikeEof ==
  rxFd # NoFd =>
    LET e == postSelect([Now EXCEPT !.rfds = {rxFd}, !.wfds = {}], <<ReadEof>>, <<>>)
        f == postSelect([Now EXCEPT !.rfds = {rxFd}, !.wfds = {}], <<ReadFail>>, <<>>)
    IN /\ f.rxFd = NoFd /\ f.rxCur = <<>> /\ f.rxQ = rxQ
       /\ f.rxFd = e.rxFd /\ f.rxCur = e.rxCur /\ f.rxQ = e.rxQ
       /\ f.fdTab = e.fdTab /\ f.pc = e.pc

\* C18: a direction that was set and has closed holds no descriptor ever
\* again.
C18_ClosedStaysClosed ==
  [][/\ (Configured /\ txFd = NoFd) => txFd' = NoFd
     /\ (Configured /\ rxFd = NoFd) => rxFd' = NoFd]_vars

\* C19: a call whose send() fails (not EAGAIN) closes the transmit
\* direction, makes no send() after the failed one and throws nothing; it
\* leaves rxFd, rxQ and rxCur as they were, and a later pass still frames
\* and queues a record that arrives.
C19_SendFailure ==
  \A ws \in SendScripts :
    \A r \in {tx(Now, s, ws) : s \in TxRecords}
          \cup (IF txFd # NoFd
                THEN {postSelect([Now EXCEPT !.rfds = {}, !.wfds = {txFd}], <<>>, ws)}
                ELSE {}) :
      r.io.txClose = "error" =>
        /\ r.txFd = NoFd /\ ~r.io.threw
        /\ txFd # NoFd => r.io.nsend = Len(ws)
        /\ r.rxFd = rxFd /\ r.rxQ = rxQ /\ r.rxCur = rxCur
        /\ rxFd # NoFd =>
             LET d == postSelect([r EXCEPT !.io = NoIo, !.rfds = {rxFd}, !.wfds = {}],
                                 <<ReadOk(<<97, NL>>)>>, <<>>)
             IN d.rxQ = Append(rxQ, rxCur \o <<97>>) /\ d.rxFd = rxFd

\* A send on one of two pipes failed: the transmit pipe is closed, the
\* receive pipe is open and has delivered a record.
C19_Witness ==
  /\ txFd = NoFd /\ rxFd = 4 /\ ~txEofFlag
  /\ fdTab[3].closes = 1 /\ fdTab[4].open /\ ~fdTab[4].shutRd
  /\ txCur # <<>> /\ rxPushed # <<>>

\* C20: tx(s) calls send() exactly when txQ was empty before the push, and
\* then does what a writable pass of postSelect does on the transport with
\* s queued; with txCur empty too and the descriptor taking the whole
\* record, the record and its newline are on the wire when tx returns.
\* When txQ was not empty, tx only appends s.
C20_InlineFlush ==
  \A s \in TxRecords, ws \in SendScripts :
    LET r == tx(Now, s, ws)
        pushed == [Now EXCEPT !.txQ = Append(@, s), !.txLog = Append(@, s),
                              !.txEarly = IF Unconfigured(Now) THEN @ + 1 ELSE @]
    IN /\ (r.io.nsend > 0) <=> (txQ = <<>>)
       /\ txQ # <<>> => r = pushed
       /\ (txQ = <<>> /\ txFd # NoFd) =>
            r = [postSelect([pushed EXCEPT !.rfds = {}, !.wfds = {txFd}], <<>>, ws)
                 EXCEPT !.rfds = rfds, !.wfds = wfds]
       /\ (txQ = <<>> /\ txCur = <<>> /\ txFd # NoFd
             /\ ws # <<>> /\ ws[1].nw >= Len(s) + 1) =>
            r.wire = wire \o s \o <<NL>> /\ r.txCur = <<>> /\ r.txQ = <<>>

\* Two records are on the wire, the event loop idle and both directions
\* open.
C20_Witness ==
  /\ Len(txLog) = 2 /\ wire = Frame(txLog) /\ evpc = "idle" /\ ~txEofFlag
  /\ txFd # NoFd /\ rxFd # NoFd

\* C21: handed cleared sets, preSelect puts txFd into the write set exactly
\* when txFd is set and txCur is non-empty, txQ is non-empty or txEofFlag is
\* set, and rxFd into the read set exactly when rxFd is set; the descriptors
\* it names are open, and nothing else changes.
C21_PreSelect ==
  LET cleared == [Now EXCEPT !.rfds = {}, !.wfds = {}]
      r == preSelect(cleared)
  IN /\ r.wfds = IF txFd # NoFd /\ (txCur # <<>> \/ txQ # <<>> \/ txEofFlag)
                  THEN {txFd} ELSE {}
     /\ r.rfds = IF rxFd # NoFd THEN {rxFd} ELSE {}
     /\ \A fd \in r.wfds \cup r.rfds : fdTab[fd].open
     /\ [r EXCEPT !.rfds = {}, !.wfds = {}] = cleared

\* preSelect has run on an open transport with nothing left to send: only
\* the read set is filled.
C21_Witness ==
  /\ evpc = "selected" /\ txFd # NoFd /\ rxFd # NoFd
  /\ wfds = {} /\ rfds = {rxFd} /\ txLog # <<>>

\* C22: a servicing pass ends on its own account, after a number of read()
\* calls that does not grow with what the peer has sent: with MaxBurst
\* chunks ready in the kernel, it returns without having asked for more
\* than those.
C22_BoundedBurst ==
  \A r \in PostSelectCalls(MaxRxBytes) : r.io.nread <= MaxBurst

\* C23: fromJson returns false for a vector or map text that is truncated,
\* lacks a separator, has a separator that no element follows, or has
\* another structural character where one is required.
C23_RejectsMalformed == codec.pc = "decoded" /\ codec.edit # "none" => ~codec.ok

\* C24: decoding an object succeeds and leaves in the target exactly the
\* keys of the text, each with the value of its last occurrence; what the
\* target held before is gone.
C24_LastWins ==
  codec.pc = "decoded" /\ codec.edit = "entries" =>
    LET es == codec.value
        At(k) == {i \in 1..Len(es) : es[i][1] = k}
        Last(k) == CHOOSE i \in At(k) : \A j \in At(k) : j <= i
    IN /\ codec.ok
       /\ DOMAIN codec.w = {es[i][1] : i \in 1..Len(es)}
       /\ \A k \in DOMAIN codec.w : codec.w[k] = es[Last(k)][2]

C24_Witness ==
  /\ codec.pc = "decoded" /\ codec.edit = "entries" /\ codec.ok
  /\ Len(codec.value) = 3
  /\ codec.value[1][1] = codec.value[3][1]
  /\ codec.value[1][2] # codec.value[3][2]
  /\ codec.value[2][1] # codec.value[1][1]
  /\ \E k \in DOMAIN codec.w0 : k \notin DOMAIN codec.w

\* C25: no record on rxQ is empty, whatever bytes the peer has sent, so a
\* drain that returns the empty string has found the queue empty.
C25_NoEmptyRecord == \A i \in 1..Len(rxQ) : rxQ[i] # <<>>

\* C26: the records passed to tx() before the first setFds are all pending
\* in txCur and txQ, in the order of the calls, none dropped and none
\* twice, and nothing is on the wire; after setFds the wire carries the
\* records in that same order, the early ones ahead of the later ones, and
\* every pass on a writable descriptor that accepts bytes sends more of
\* them until none is pending.
C26_EarlyRecords ==
  /\ txEarly <= Len(txLog)
  /\ Unconfigured(Now) =>
       /\ txEarly = Len(txLog) /\ wire = <<>>
       /\ txCur \o Frame(txQ) = Frame(txLog)
  /\ IsPrefix(wire, Frame(txLog))
  /\ Len(wire) < Len(Frame(SubSeq(txLog, 1, txEarly))) =>
       IsPrefix(Frame(SubSeq(txLog, 1, txEarly)), wire \o txCur \o Frame(txQ))
  /\ txFd # NoFd =>
       \A ws \in {w \in SendScripts : w # <<>> /\ \A i \in 1..Len(w) : w[i].nw > 0} :
         LET r == postSelect([Now EXCEPT !.rfds = {}, !.wfds = {txFd}], <<>>, ws)
         IN /\ r.wire \o r.txCur \o Frame(r.txQ) = Frame(txLog)
            /\ IsPrefix(r.wire, Frame(txLog))
            /\ txCur \o Frame(txQ) # <<>> => Len(r.wire) > Len(wire)

\* Two records were passed to tx() before setFds and one after it; all
\* three are on the wire.
C26_Witness ==
  /\ txEarly = 2 /\ Len(txLog) = 3 /\ txLog[1] # txLog[2]
  /\ wire = Frame(txLog) /\ txFd # NoFd

====
